---- MODULE Spec2Model ----
(***************************************************************************)
(* Model of udon_mcp.py: the domain-scoped URL resolver                    *)
(* (_ensure_vrchat_url), the backend client factory (_get_firecrawl_app)   *)
(* and the four tool handlers registered on the FastMCP application.       *)
(*                                                                         *)
(* Python strings are TLA+ strings (Len, \o and SubSeq act on them         *)
(* character by character), so str.startswith is a real prefix test.       *)
(* An Optional[T] argument is a sequence of zero or one T: None is <<>>,   *)
(* a given value x is <<x>>.                                               *)
(*                                                                         *)
(* The FireCrawl backend is outside the repository: every call to it       *)
(* answers with a nondeterministically chosen response (a result, or an    *)
(* exception carrying a message), and a waited crawl stays inside          *)
(* crawl_url for as long as the backend keeps reporting a non-terminal     *)
(* status.                                                                 *)
(***************************************************************************)
EXTENDS Integers, Sequences, FiniteSets, TLC

VARIABLES
    apiKeyEnv,   \* os.environ's FIRECRAWL_API_KEY at import time (Optional str)
    status,      \* "idle" | "polling" (inside crawl_url) | "done" | "exited"
    call,        \* the tool invocation being served, with its arguments
    resolved,    \* the _ensure_vrchat_url calls of that invocation, in order
    client,      \* the FirecrawlApp obtained by that invocation (Optional)
    sent,        \* the backend calls of that invocation, in order
    outcome,     \* what the invocation gave its caller
    elapsed      \* seconds spent inside a waited crawl_url

vars == <<apiKeyEnv, status, call, resolved, client, sent, outcome, elapsed>>

-----------------------------------------------------------------------------
(* Bounds of the model *)

\* longest urls / paths list handed to udonsharp_extract_data
MaxListLen == 2
\* the clock of a waited crawl stops advancing here
MaxElapsed == 12

-----------------------------------------------------------------------------
(* Python values *)

None == <<>>
Some(x) == <<x>>

\* Python's `opt or default` for an Optional[str]: None and "" are falsy
OrStr(opt, default) == IF opt = None \/ opt[1] = "" THEN default ELSE opt[1]

\* Python's `opt or default` for an Optional[List]: None and [] are falsy
OrList(opt, default) == IF opt = None \/ opt[1] = <<>> THEN default ELSE opt[1]

\* str.startswith
StartsWith(s, prefix) ==
    /\ Len(s) >= Len(prefix)
    /\ SubSeq(s, 1, Len(prefix)) = prefix

\* ', '.join(strs)
RECURSIVE Join(_, _)
Join(strs, sep) ==
    IF strs = <<>> THEN ""
    ELSE IF Len(strs) = 1 THEN strs[1]
    ELSE strs[1] \o sep \o Join(Tail(strs), sep)

-----------------------------------------------------------------------------
(* Module-level configuration *)

\* the second argument of os.environ.get: a non-empty placeholder text
\* (written in Japanese in the source; any non-empty string behaves the same)
FIRECRAWL_API_KEY_DEFAULT == "your-token-placeholder"

\* os.environ.get("FIRECRAWL_API_KEY", <placeholder>): the default is used
\* only when the variable is unset; a variable set to "" stays ""
FIRECRAWL_API_KEY ==
    IF apiKeyEnv = None THEN FIRECRAWL_API_KEY_DEFAULT ELSE apiKeyEnv[1]

SUPPORTED_DOMAINS ==
    << "https://udonsharp.docs.vrchat.com",
       "https://creators.vrchat.com",
       "https://docs.vrchat.com" >>

DOC_DOMAIN == "https://udonsharp.docs.vrchat.com"

-----------------------------------------------------------------------------
(* _ensure_vrchat_url *)

\* variant: only the http:// scheme is recognised as absolute
IsAbsolute_httpOnly(url_or_path) == StartsWith(url_or_path, "http://")

\* url_or_path.startswith("http://") or url_or_path.startswith("https://")
IsAbsolute(url_or_path) ==
    StartsWith(url_or_path, "http://") \/ StartsWith(url_or_path, "https://")

\* variant: the test is `"vrchat.com" in url` instead of a prefix test
IsSupported_substring(url) ==
    \E k \in 1..(Len(url) - 9) : SubSeq(url, k, k + 9) = "vrchat.com"

\* any(url.startswith(domain) for domain in SUPPORTED_DOMAINS)
IsSupported(url) ==
    \E i \in 1..Len(SUPPORTED_DOMAINS) : StartsWith(url, SUPPORTED_DOMAINS[i])

\* f"URL must start with one of: {', '.join(SUPPORTED_DOMAINS)}"
UnsupportedMessage == "URL must start with one of: " \o Join(SUPPORTED_DOMAINS, ", ")

\* variant: the separator is inserted without looking at the fragment
PathUrl_alwaysSlash(domain, url_or_path) == domain \o "/" \o url_or_path

\* f"{domain}{url_or_path if url_or_path.startswith('/') else '/' + url_or_path}"
PathUrl(domain, url_or_path) ==
    domain \o (IF StartsWith(url_or_path, "/") THEN url_or_path
               ELSE "/" \o url_or_path)

\* The resolver: a returned url, or the ValueError it raises.
\* base_domain is an Optional[str]; `base_domain or DOC_DOMAIN` picks the domain.
EnsureVrchatUrl(url_or_path, base_domain) ==
    IF IsAbsolute(url_or_path)
    THEN IF ~IsSupported(url_or_path)
         THEN [kind |-> "ValueError", val |-> UnsupportedMessage]
         ELSE [kind |-> "ok", val |-> url_or_path]
    ELSE [kind |-> "ok", val |-> PathUrl(OrStr(base_domain, DOC_DOMAIN), url_or_path)]

\* One entry of the trace of resolver calls of an invocation
Resolution(url_or_path, base_domain) ==
    [arg |-> url_or_path, base |-> base_domain,
     out |-> EnsureVrchatUrl(url_or_path, base_domain)]

\* The resolver applied to a list in order, as a loop of
\* targets.append(_ensure_vrchat_url(x)): the loop ends at the first ValueError
RECURSIVE ResolveEach(_)
ResolveEach(inputs) ==
    IF inputs = <<>> THEN <<>>
    ELSE LET r == Resolution(Head(inputs), None)
         IN  IF r.out.kind = "ok" THEN <<r>> \o ResolveEach(Tail(inputs))
             ELSE <<r>>

\* the first ValueError of a trace of resolver calls, if any
Raised(trace) ==
    IF trace /= <<>> /\ trace[Len(trace)].out.kind /= "ok"
    THEN Some(trace[Len(trace)].out.val) ELSE None

\* the urls a trace of successful resolver calls returned
Urls(trace) == [i \in 1..Len(trace) |-> trace[i].out.val]

-----------------------------------------------------------------------------
(* Outcomes of an invocation *)

NoOutcome == [kind |-> "none", msg |-> "", result |-> None]
Blocked == [kind |-> "blocked", msg |-> "", result |-> None]
Return(result) == [kind |-> "return", msg |-> "", result |-> Some(result)]
ValueError(msg) == [kind |-> "ValueError", msg |-> msg, result |-> None]
SystemExit == [kind |-> "SystemExit", msg |-> "FIRECRAWL_API_KEY is required", result |-> None]

\* variant: the backend's exception is re-raised as it came
Wrap_reraise(label, e) == [kind |-> "Exception", msg |-> e, result |-> None]

\* except Exception as e: raise RuntimeError(f"<label>: {str(e)}")
Wrap(label, e) == [kind |-> "RuntimeError", msg |-> label \o ": " \o e, result |-> None]

\* ScrapeOptions(formats=formats or ["markdown"], onlyMainContent=only_main_content)
ScrapeOptions(formats, only_main_content) ==
    [formats |-> OrList(formats, <<"markdown">>), onlyMainContent |-> only_main_content]

-----------------------------------------------------------------------------
(* The backend, as the handlers see it *)

\* what one backend call can answer: a result, or an exception with a message
BackendResponses ==
    { [ok |-> TRUE, msg |-> ""],
      [ok |-> FALSE, msg |-> "Payment Required"],
      [ok |-> FALSE, msg |-> "Request Timeout"] }

Pending == [ok |-> FALSE, msg |-> "<no answer yet>"]

\* _get_firecrawl_app: `if not FIRECRAWL_API_KEY: ... sys.exit(1)`, else the client
KeyMissing == FIRECRAWL_API_KEY = ""
FirecrawlApp == [api_key |-> FIRECRAWL_API_KEY]

\* one call on the client, with the answer it got
BackendCall(method, urls, options, resp) ==
    [method |-> method, urls |-> urls, options |-> options,
     api_key |-> FirecrawlApp.api_key, resp |-> resp]

\* An invocation that ended before reaching the backend
EndsEarly(o) ==
    /\ client' = None
    /\ sent' = <<>>
    /\ outcome' = o
    /\ status' = IF o.kind = "SystemExit" THEN "exited" ELSE "done"
    /\ elapsed' = 0
    /\ UNCHANGED apiKeyEnv

\* An invocation that made one backend call and got resp
OneCall(method, urls, options, resp, result, label) ==
    /\ client' = Some(FirecrawlApp)
    /\ sent' = << BackendCall(method, urls, options, resp) >>
    /\ outcome' = IF resp.ok THEN Return(result) ELSE Wrap(label, resp.msg)
    /\ status' = "done"
    /\ elapsed' = 0
    /\ UNCHANGED apiKeyEnv

-----------------------------------------------------------------------------
(* Arguments the caller may pass *)

PathFragments == { "", "/", "/getting-started/", "worlds/udon", "ftp://x" }

AbsoluteUrls ==
    { "https://udonsharp.docs.vrchat.com/a",
      "https://creators.vrchat.com",
      "https://docs.vrchat.com/b",
      "https://docs.vrchat.com.evil.example/x",
      "http://docs.vrchat.com/b",
      "https://evil.example.com/x" }

Inputs == PathFragments \cup AbsoluteUrls

OptionalOf(S) == {None} \cup { Some(x) : x \in S }

BaseDomains ==
    OptionalOf({ "", "https://udonsharp.docs.vrchat.com", "https://creators.vrchat.com",
                 "https://docs.vrchat.com", "https://evil.example.com" })

Formats == OptionalOf({ <<>>, <<"html">> })

\* the entries of the urls and paths lists of udonsharp_extract_data
ListEntries ==
    { "/getting-started/", "worlds/udon",
      "https://creators.vrchat.com", "https://evil.example.com/x" }

Lists == UNION { [1..n -> ListEntries] : n \in 0..MaxListLen }

PollIntervals == { 1, 10 }
MaxWaits == { 1, 5 }

-----------------------------------------------------------------------------
(* The tool handlers *)

\* udonsharp_scrape_page
ScrapePage(path, url, formats, only_main_content, base_domain, resp) ==
    /\ status = "idle"
    /\ call' = [op |-> "scrape_page", path |-> path, url |-> url, formats |-> formats,
                only_main_content |-> only_main_content, base_domain |-> base_domain]
    /\ LET target == Resolution(OrStr(url, OrStr(path, "/")), base_domain)
       IN  /\ resolved' = <<target>>
           /\ IF target.out.kind /= "ok" THEN EndsEarly(ValueError(target.out.val))
              ELSE IF KeyMissing THEN EndsEarly(SystemExit)
              ELSE OneCall("scrape_url", <<target.out.val>>,
                           ScrapeOptions(formats, only_main_content), resp,
                           [data |-> "page"], "Scrape failed")

\* vrchat_json_docs
JsonDocsPath == "/worlds/udon/data-containers/vrcjson"
\* variant: the forced domain is the default domain
JsonDocsDomain_default == DOC_DOMAIN

JsonDocsDomain == "https://creators.vrchat.com"

VrchatJsonDocs(path, formats, only_main_content, resp) ==
    /\ status = "idle"
    /\ call' = [op |-> "vrchat_json_docs", path |-> path, formats |-> formats,
                only_main_content |-> only_main_content]
    /\ LET target == Resolution(OrStr(path, JsonDocsPath), Some(JsonDocsDomain))
       IN  /\ resolved' = <<target>>
           /\ IF target.out.kind /= "ok" THEN EndsEarly(ValueError(target.out.val))
              ELSE IF KeyMissing THEN EndsEarly(SystemExit)
              ELSE OneCall("scrape_url", <<target.out.val>>,
                           ScrapeOptions(formats, only_main_content), resp,
                           [data |-> "page"], "VRChat JSON docs scrape failed")

\* udonsharp_extract_data
\* variant: the paths loop runs before the urls loop
TargetInputs_pathsFirst(urls, paths) == OrList(paths, <<>>) \o OrList(urls, <<>>)

\* the order in which the two loops visit their inputs
TargetInputs(urls, paths) == OrList(urls, <<>>) \o OrList(paths, <<>>)

\* variant: the test is `if targets is None`, which an empty list passes
NoTargets_isNone(targets) == FALSE

\* `if not targets`
NoTargets(targets) == targets = <<>>

\* `if show_sources: result["sources"] = targets`
Extracted(show_sources, targets) ==
    IF show_sources THEN [data |-> "extracted", sources |-> targets]
    ELSE [data |-> "extracted"]

ExtractData(paths, urls, show_sources, resp) ==
    /\ status = "idle"
    /\ call' = [op |-> "extract_data", paths |-> paths, urls |-> urls,
                show_sources |-> show_sources]
    /\ LET trace == ResolveEach(TargetInputs(urls, paths))
           targets == Urls(trace)
       IN  /\ resolved' = trace
           /\ IF Raised(trace) /= None THEN EndsEarly(ValueError(Raised(trace)[1]))
              ELSE IF NoTargets(targets)
              THEN EndsEarly(ValueError("Provide at least one url or path"))
              ELSE IF KeyMissing THEN EndsEarly(SystemExit)
              ELSE OneCall("extract", targets, None, resp,
                           Extracted(show_sources, targets), "Extract failed")

\* udonsharp_crawl_site.  The pass-through arguments (include_paths, exclude_paths,
\* max_depth, limit, ignore_sitemap, formats, only_main_content) reach the backend
\* untouched and are left at their defaults; delay and max_wait_sec are accepted
\* and used nowhere in the body.
CrawlOptions(wait, poll_interval_sec) ==
    IF wait
    THEN [scrape_options |-> ScrapeOptions(None, TRUE), poll_interval |-> poll_interval_sec]
    ELSE [scrape_options |-> ScrapeOptions(None, TRUE)]

\* wait=True: the handler is inside firecrawl.crawl_url(...), which has not returned
EntersCrawlUrl(urls, options) ==
    /\ client' = Some(FirecrawlApp)
    /\ sent' = << BackendCall("crawl_url", urls, options, Pending) >>
    /\ outcome' = Blocked
    /\ status' = "polling"
    /\ elapsed' = 0
    /\ UNCHANGED apiKeyEnv

CrawlSite(start_path, wait, poll_interval_sec, max_wait_sec, resp) ==
    /\ status = "idle"
    /\ call' = [op |-> "crawl_site", start_path |-> start_path, wait |-> wait,
                poll_interval_sec |-> poll_interval_sec, max_wait_sec |-> max_wait_sec]
    /\ LET target == Resolution(start_path, None)
       IN  /\ resolved' = <<target>>
           /\ IF target.out.kind /= "ok" THEN EndsEarly(ValueError(target.out.val))
              ELSE IF KeyMissing THEN EndsEarly(SystemExit)
              ELSE IF wait
              THEN EntersCrawlUrl(<<target.out.val>>, CrawlOptions(wait, poll_interval_sec))
              ELSE OneCall("async_crawl_url", <<target.out.val>>,
                           CrawlOptions(wait, poll_interval_sec), resp,
                           [data |-> "job"], "Crawl failed")

\* Inside crawl_url: the backend reports a status that is not terminal, and the
\* client waits poll_interval before it asks again.  Nothing in the handler
\* looks at the time spent.
CrawlPolls ==
    /\ status = "polling"
    /\ elapsed + call.poll_interval_sec <= MaxElapsed
    /\ elapsed' = elapsed + call.poll_interval_sec
    /\ UNCHANGED <<apiKeyEnv, status, call, resolved, client, sent, outcome>>

\* crawl_url comes back: with the crawl's result, or with an exception
CrawlUrlEnds(resp) ==
    /\ status = "polling"
    /\ sent' = [sent EXCEPT ![1].resp = resp]
    /\ outcome' = IF resp.ok THEN Return([data |-> "crawl"])
                  ELSE Wrap("Crawl failed", resp.msg)
    /\ status' = "done"
    /\ UNCHANGED <<apiKeyEnv, call, resolved, client, elapsed>>

\* The handler has returned or raised: FastMCP answers the caller, and the
\* request-scoped values of the invocation are gone
Responds ==
    /\ status = "done"
    /\ status' = "idle"
    /\ call' = [op |-> "none"]
    /\ resolved' = <<>>
    /\ client' = None
    /\ sent' = <<>>
    /\ outcome' = NoOutcome
    /\ elapsed' = 0
    /\ UNCHANGED apiKeyEnv

-----------------------------------------------------------------------------
(* The process *)

\* import time: the environment either has no FIRECRAWL_API_KEY, an empty one,
\* or a key; the FastMCP application then serves tool calls
Init ==
    /\ apiKeyEnv \in OptionalOf({ "", "fc-live-key" })
    /\ status = "idle"
    /\ call = [op |-> "none"]
    /\ resolved = <<>>
    /\ client = None
    /\ sent = <<>>
    /\ outcome = NoOutcome
    /\ elapsed = 0

\* a tool call arrives only while no handler is running (single logical flow)
Next ==
    \/ /\ status = "idle"
       /\ \E path \in OptionalOf(Inputs), url \in OptionalOf(Inputs), formats \in Formats,
             only_main_content \in BOOLEAN, base_domain \in BaseDomains,
             resp \in BackendResponses :
               ScrapePage(path, url, formats, only_main_content, base_domain, resp)
    \/ /\ status = "idle"
       /\ \E start_path \in Inputs, wait \in BOOLEAN, poll_interval_sec \in PollIntervals,
             max_wait_sec \in MaxWaits, resp \in BackendResponses :
               CrawlSite(start_path, wait, poll_interval_sec, max_wait_sec, resp)
    \/ CrawlPolls
    \/ \E resp \in BackendResponses : CrawlUrlEnds(resp)
    \/ /\ status = "idle"
       /\ \E paths \in OptionalOf(Lists), urls \in OptionalOf(Lists),
             show_sources \in BOOLEAN, resp \in BackendResponses :
               ExtractData(paths, urls, show_sources, resp)
    \/ /\ status = "idle"
       /\ \E path \in OptionalOf(Inputs), formats \in Formats,
             only_main_content \in BOOLEAN, resp \in BackendResponses :
               VrchatJsonDocs(path, formats, only_main_content, resp)
    \/ Responds

Spec == Init /\ [][Next]_vars

-----------------------------------------------------------------------------
(* Vocabulary of the properties *)

\* the Allowed Domain Set and the Default Domain, as the specification names them
AllowedDomainSet ==
    << "https://udonsharp.docs.vrchat.com",
       "https://creators.vrchat.com",
       "https://docs.vrchat.com" >>
DefaultDomain == "https://udonsharp.docs.vrchat.com"
SecondHost == "https://creators.vrchat.com"

BeginsWith(s, t) == Len(s) >= Len(t) /\ SubSeq(s, 1, Len(t)) = t
EndsWith(s, t) == Len(s) >= Len(t) /\ SubSeq(s, Len(s) - Len(t) + 1, Len(s)) = t

\* the places where t occurs in s
Occurrences(s, t) ==
    { k \in 1..(Len(s) - Len(t) + 1) : SubSeq(s, k, k + Len(t) - 1) = t }

BeginsWithScheme(s) == BeginsWith(s, "http://") \/ BeginsWith(s, "https://")
BeginsWithAllowed(s) == \E i \in 1..Len(AllowedDomainSet) : BeginsWith(s, AllowedDomainSet[i])

\* an Optional[str] argument that was given and is not empty
Given(opt) == opt /= None /\ opt[1] /= ""

\* an Optional[List] argument that was given and is not empty
GivenList(opt) == opt /= None /\ opt[1] /= <<>>

\* the handler of the invocation has returned or raised
Finished == status \in {"done", "exited"}

\* the label under which each operation reports a backend failure
OperationName(op) ==
    CASE op = "scrape_page" -> "Scrape"
      [] op = "crawl_site" -> "Crawl"
      [] op = "extract_data" -> "Extract"
      [] op = "vrchat_json_docs" -> "VRChat JSON docs"

-----------------------------------------------------------------------------
(* Properties *)

\* C1: every target URL handed to the backend, by any of the four operations
\* and with any arguments, begins with the text of an entry of the Allowed
\* Domain Set.
C1_OnlyAllowedTargets ==
    \A i \in 1..Len(sent) : \A j \in 1..Len(sent[i].urls) :
        BeginsWithAllowed(sent[i].urls[j])

\* C2: an input that begins with http:// or https:// and with no allowed-domain
\* entry makes the resolver fail with a ValueError whose message has every
\* allowed domain exactly once, comma-separated, in configured order; the
\* operation is rejected with that error and no backend call is made.
C2_ListsDomains(msg) ==
    /\ \A i \in 1..Len(AllowedDomainSet) :
          Cardinality(Occurrences(msg, AllowedDomainSet[i])) = 1
    /\ Occurrences(msg, AllowedDomainSet[1] \o ", " \o AllowedDomainSet[2]
                        \o ", " \o AllowedDomainSet[3]) /= {}

C2_ForeignUrlRejected ==
    \A i \in 1..Len(resolved) :
        LET r == resolved[i]
        IN  (BeginsWithScheme(r.arg) /\ ~BeginsWithAllowed(r.arg)) =>
              /\ r.out.kind = "ValueError"
              /\ C2_ListsDomains(r.out.val)
              /\ outcome.kind = "ValueError"
              /\ outcome.msg = r.out.val
              /\ sent = <<>>

C2_Witness ==
    /\ status = "done"
    /\ call.op = "scrape_page"
    /\ call.url = Some("https://evil.example.com/x")
    /\ outcome.kind = "ValueError"
    /\ sent = <<>>

\* C3: a waited crawl does not stay inside the poll loop once the time spent
\* has reached max_wait_sec: it has ended (with a timeout error) by then.
C3_WaitedCrawlTimesOut ==
    status = "polling" => elapsed < call.max_wait_sec

\* C4: with the credential absent from the environment no backend client is
\* built and no backend call is made.
C4_NoCallWithoutCredential ==
    apiKeyEnv = None => (client = None /\ sent = <<>>)

\* C5: extract_data with paths and urls both empty or absent fails with a
\* ValueError before the backend client is obtained and before any backend call.
C5_NoTargetsRejected ==
    (call.op = "extract_data" /\ ~GivenList(call.paths) /\ ~GivenList(call.urls)) =>
        /\ status = "done"
        /\ outcome.kind = "ValueError"
        /\ outcome.msg /= ""
        /\ client = None
        /\ sent = <<>>

C5_Witness ==
    /\ call.op = "extract_data"
    /\ call.paths = Some(<<>>)
    /\ call.urls = None
    /\ outcome.kind = "ValueError"
    /\ client = None

\* C6: in each of the four operations a failure of the backend call reaches the
\* caller as a RuntimeError carrying the operation's name and the backend's
\* message, and a resolver failure or extract_data's empty target list reaches
\* the caller as a ValueError, never as a RuntimeError.
C6_ErrorContract ==
    Finished =>
        /\ \A i \in 1..Len(sent) :
              ~sent[i].resp.ok =>
                 /\ outcome.kind = "RuntimeError"
                 /\ BeginsWith(outcome.msg, OperationName(call.op))
                 /\ EndsWith(outcome.msg, sent[i].resp.msg)
        /\ (\E i \in 1..Len(resolved) : resolved[i].out.kind /= "ok") =>
              /\ outcome.kind = "ValueError"
              /\ outcome.msg = resolved[Len(resolved)].out.val
        /\ (call.op = "extract_data" /\ resolved = <<>>) => outcome.kind = "ValueError"
        /\ outcome.kind = "RuntimeError" => (sent /= <<>> /\ ~sent[1].resp.ok)

C6_Witness ==
    /\ status = "done"
    /\ call.op = "vrchat_json_docs"
    /\ sent /= <<>>
    /\ sent[1].resp.msg = "Payment Required"
    /\ outcome.kind = "RuntimeError"

\* C7: a path fragment p resolves to d + p when p starts with '/', and to
\* d + "/" + p otherwise, d being the override domain when one is given and
\* the Default Domain when none is.
C7_PathFragmentRule ==
    \A i \in 1..Len(resolved) :
        LET r == resolved[i]
            p == r.arg
            d == IF Given(r.base) THEN r.base[1] ELSE DefaultDomain
        IN  ~BeginsWithScheme(p) =>
              /\ r.out.kind = "ok"
              /\ r.out.val = IF BeginsWith(p, "/") THEN d \o p ELSE d \o "/" \o p

C7_Witness ==
    /\ call.op = "scrape_page"
    /\ call.base_domain = Some("https://docs.vrchat.com")
    /\ resolved[1].arg = "worlds/udon"
    /\ resolved[1].out.val = "https://docs.vrchat.com/worlds/udon"

\* C8: an absolute URL that begins with an allowed-domain entry is returned
\* unchanged whatever override domain is supplied, and resolving the returned
\* string again, under any override domain, returns the same string.
C8_AllowedUrlUnchanged ==
    \A i \in 1..Len(resolved) :
        LET r == resolved[i]
        IN  (BeginsWithScheme(r.arg) /\ BeginsWithAllowed(r.arg)) =>
              /\ r.out = [kind |-> "ok", val |-> r.arg]
              /\ \A b \in BaseDomains :
                    EnsureVrchatUrl(r.out.val, b) = [kind |-> "ok", val |-> r.arg]

C8_Witness ==
    /\ call.op = "scrape_page"
    /\ call.base_domain = Some("https://creators.vrchat.com")
    /\ resolved[1].arg = "https://docs.vrchat.com/b"
    /\ sent /= <<>>
    /\ sent[1].urls = << "https://docs.vrchat.com/b" >>

\* C9: extract_data hands the single backend extract call the list of every
\* url resolved in input order followed by every path resolved in input order,
\* and with show_sources set the returned result carries exactly that list
\* under 'sources'.
C9_Expected ==
    LET us == IF call.urls = None THEN <<>> ELSE call.urls[1]
        ps == IF call.paths = None THEN <<>> ELSE call.paths[1]
    IN  [i \in 1..Len(us) |-> EnsureVrchatUrl(us[i], None).val]
          \o [i \in 1..Len(ps) |-> EnsureVrchatUrl(ps[i], None).val]

C9_TargetOrder ==
    (call.op = "extract_data" /\ sent /= <<>>) =>
        /\ Len(sent) = 1
        /\ sent[1].method = "extract"
        /\ sent[1].urls = C9_Expected
        /\ (call.show_sources /\ outcome.kind = "return") =>
              outcome.result[1].sources = C9_Expected

C9_Witness ==
    /\ call.op = "extract_data"
    /\ call.urls = Some(<< "https://creators.vrchat.com", "worlds/udon" >>)
    /\ call.paths = Some(<< "/getting-started/" >>)
    /\ call.show_sources
    /\ outcome.kind = "return"
    /\ outcome.result[1].sources =
          << "https://creators.vrchat.com",
             "https://udonsharp.docs.vrchat.com/worlds/udon",
             "https://udonsharp.docs.vrchat.com/getting-started/" >>

\* C10 (as stated): for every path value the one URL vrchat_json_docs hands to
\* the backend begins with https://creators.vrchat.com, and with path omitted
\* or empty it is https://creators.vrchat.com/worlds/udon/data-containers/vrcjson.
C10_Original ==
    (call.op = "vrchat_json_docs" /\ sent /= <<>>) =>
        /\ Len(sent) = 1
        /\ Len(sent[1].urls) = 1
        /\ BeginsWith(sent[1].urls[1], SecondHost)
        /\ ~Given(call.path) =>
              sent[1].urls[1] = SecondHost \o "/worlds/udon/data-containers/vrcjson"

\* C10 (amended): for every path value that is a path fragment (not beginning
\* with http:// or https://) the one URL handed to the backend begins with
\* https://creators.vrchat.com; with path omitted or empty it is
\* https://creators.vrchat.com/worlds/udon/data-containers/vrcjson; a path that
\* is an absolute URL under an allowed domain is handed over unchanged.
C10_Amended ==
    (call.op = "vrchat_json_docs" /\ sent /= <<>>) =>
        /\ Len(sent) = 1
        /\ sent[1].method = "scrape_url"
        /\ Len(sent[1].urls) = 1
        /\ ~Given(call.path) =>
              sent[1].urls[1] = SecondHost \o "/worlds/udon/data-containers/vrcjson"
        /\ (Given(call.path) /\ ~BeginsWithScheme(call.path[1])) =>
              BeginsWith(sent[1].urls[1], SecondHost)
        /\ (Given(call.path) /\ BeginsWithScheme(call.path[1])) =>
              /\ sent[1].urls[1] = call.path[1]
              /\ BeginsWithAllowed(call.path[1])

C10_Witness ==
    /\ call.op = "vrchat_json_docs"
    /\ call.path = Some("worlds/udon")
    /\ sent /= <<>>
    /\ sent[1].urls = << "https://creators.vrchat.com/worlds/udon" >>

====
